---- MODULE Spec2Model ----
(***************************************************************************)
(* Model of the cancellable shell-command execution engine of cove:        *)
(*   src-tauri/src/shell_commands/{mod,runner,cancel}.rs                   *)
(*   src-tauri/src/sandbox/{mod,macos,linux}.rs                            *)
(*   src-tauri/src/fs_commands/validation.rs                               *)
(*                                                                         *)
(* Every run_command invocation occupies one slot.  The worker thread of   *)
(* an invocation is modelled by its position pc[i] in execute(); the       *)
(* child process, its descendants, the timer thread, the two pipe reader   *)
(* threads and the callers of cancel_command / set_sandbox_policy are the  *)
(* concurrent environment.  Spec is that machine; TimeoutSpec starts it    *)
(* with any timeout argument, OutSpec lets the command write to its pipes, *)
(* RegSpec adds a second invocation using the registry, PureSpec calls     *)
(* build_sandbox_command and ensure_inside_workspace_exists directly,      *)
(* TermSpec makes the termination step a second time, ReaderFairSpec       *)
(* schedules the pipe reader threads fairly.  SessSpec is the session      *)
(* manager of src-tauri/src/officellm/server/mod.rs with its callers.      *)
(***************************************************************************)
EXTENDS Integers, Sequences, FiniteSets, TLC

\* ------------------------------------------------------------------------
\* Bounds of the model
\* ------------------------------------------------------------------------
\* the invocations (slots) of run_command
Slots == {"a"}
\* cancel-token keys the frontend uses; NoKey is args.cancel_token = None
Keys == {"k1"}
\* keys the frontend may pass to cancel_command: the former and one never registered
CancelKeys == Keys \cup {"k2"}
NoKey == "none"
\* marker of "no token registered under this key"
NoToken == "none"

\* ------------------------------------------------------------------------
\* Paths.  A string is a sequence of characters, a path a sequence of
\* components (each a string).
\* ------------------------------------------------------------------------
RECURSIVE SplitFrom(_, _, _)
\* components of the string s from position i on, cur being the component
\* under construction; empty components (repeated separators) are dropped
SplitFrom(s, i, cur) ==
  IF i > Len(s) THEN (IF cur = <<>> THEN <<>> ELSE <<cur>>)
  ELSE IF s[i] = "/"
       THEN (IF cur = <<>> THEN <<>> ELSE <<cur>>) \o SplitFrom(s, i + 1, <<>>)
       ELSE SplitFrom(s, i + 1, Append(cur, s[i]))

\* Path::components of a string (the root separator is kept apart, see IsAbsolute)
Components(s) == SplitFrom(s, 1, <<>>)

\* Path::is_absolute
IsAbsolute(s) == Len(s) > 0 /\ s[1] = "/"

RECURSIVE ToStr(_)
\* the string of an absolute path given by its components
ToStr(comps) ==
  IF comps = <<>> THEN <<>>
  ELSE <<"/">> \o Head(comps) \o ToStr(Tail(comps))

\* into_os_string of an absolute path: "/" for the root directory
PathString(comps) == IF comps = <<>> THEN <<"/">> ELSE ToStr(comps)

\* str::starts_with: character-wise prefix
StrStartsWith(s, prefix) ==
  /\ Len(prefix) <= Len(s)
  /\ SubSeq(s, 1, Len(prefix)) = prefix

\* Path::starts_with: component-wise prefix
PathStartsWith(p, base) ==
  /\ Len(base) <= Len(p)
  /\ SubSeq(p, 1, Len(base)) = base

\* The file system the commands run against: directories by canonical path
c_w == <<"w">>
c_wx == <<"w", "x">>
c_s == <<"s">>
c_o == <<"o">>
c_l == <<"l">>
ExistingDirs == { <<>>, <<c_w>>, <<c_w, c_s>>, <<c_wx>>, <<c_o>> }
\* symbolic links: link path -> canonical target
SymlinkAt == { <<c_w, c_l>> }
SymlinkTarget(p) == <<c_o>>

NotFoundPath == [ok |-> FALSE, err |-> "NotFound", path |-> <<>>]

RECURSIVE Resolve(_, _)
\* std::fs::canonicalize: walk the components from the canonical prefix cur,
\* following symbolic links; NotFound when an entry does not exist
Resolve(cur, rest) ==
  IF rest = <<>> THEN [ok |-> TRUE, err |-> "", path |-> cur]
  ELSE LET c == Head(rest) IN
       IF c = <<".">> THEN Resolve(cur, Tail(rest))
       ELSE IF c = <<".", ".">>
            THEN Resolve(IF cur = <<>> THEN <<>> ELSE SubSeq(cur, 1, Len(cur) - 1),
                         Tail(rest))
            ELSE LET next == Append(cur, c) IN
                 IF next \in SymlinkAt THEN Resolve(SymlinkTarget(next), Tail(rest))
                 ELSE IF next \in ExistingDirs THEN Resolve(next, Tail(rest))
                 ELSE NotFoundPath

Canonicalize(s) == Resolve(<<>>, Components(s))

\* fs_commands::validation::ensure_inside_workspace_exists
EnsureInsideWorkspaceExists(workspace_root, path) ==
  LET rootC == Canonicalize(workspace_root) IN
  IF ~rootC.ok THEN [ok |-> FALSE, err |-> "NotFound", path |-> <<>>]
  ELSE LET root == PathString(rootC.path)
           resolved == IF IsAbsolute(path) THEN path
                       ELSE root \o <<"/">> \o path
           canonical == Canonicalize(resolved)
       IN IF ~canonical.ok THEN [ok |-> FALSE, err |-> "NotFound", path |-> <<>>]
          ELSE IF ~StrStartsWith(PathString(canonical.path), root)
               THEN [ok |-> FALSE, err |-> "OutsideWorkspace", path |-> <<>>]
               ELSE [ok |-> TRUE, err |-> "", path |-> canonical.path]

\* the workspace root and the working directories the frontend passes
WorkspaceRoot == <<"/", "w">>
WorkdirDefault == <<".">>
WorkdirArgs == { WorkdirDefault,
                 <<"/", "w", "x">>,
                 <<"/", "o">>,
                 <<".", ".">>,
                 <<"n">>,
                 <<"l">> }

\* ------------------------------------------------------------------------
\* Sandbox policy (sandbox/mod.rs)
\* ------------------------------------------------------------------------
\* SandboxPolicy::default
DefaultPolicy ==
  [enabled |-> TRUE,
   deny_read |-> << <<"~", "/", ".", "s", "s", "h">>,
                    <<"~", "/", ".", "a", "w", "s">>,
                    <<"~", "/", ".", "g", "n", "u", "p", "g">>,
                    <<"~", "/", ".", "c", "o", "n", "f", "i", "g", "/", "g", "c", "l", "o", "u", "d">> >>,
   allow_write |-> <<>>,
   deny_write |-> <<>>,
   allow_network |-> FALSE]

\* policies the settings page saves
SavedPolicies ==
  { [DefaultPolicy EXCEPT !.enabled = FALSE, !.allow_write = << <<"/", "d", "a", "t", "a">> >>,
                          !.deny_write = << <<"/", "d", "a", "t", "a">> >>] }

\* the policy file: absent, unparsable, or a serialized policy
AbsentFile == [state |-> "absent", policy |-> DefaultPolicy]

\* variant: the defaults are handed out whatever the file holds
LoadPolicyStale(file) == DefaultPolicy

\* sandbox::load_policy
LoadPolicy(file) ==
  IF file.state = "valid" THEN file.policy ELSE DefaultPolicy

\* dirs::home_dir()
Home == <<"/", "h">>

\* officellm::env::sandbox_temp_whitelist: the officellm tmp directory below
\* the home directory and the system temp directory
SandboxTempWhitelist ==
  << Home \o <<"/", ".", "o", "f", "f", "i", "c", "e", "l", "l", "m", "/", "t", "m", "p">>,
     <<"/", "v", "a", "r", "/", "t", "m", "p">> >>

Platforms == {"macos", "linux", "other"}

\* sandbox::expand_tilde: a leading "~" becomes the home directory
ExpandTilde(path) ==
  IF StrStartsWith(path, <<"~", "/">>) \/ path = <<"~">>
  THEN Home \o Tail(path)
  ELSE path

RECURSIVE EscapeSeatbelt(_)
\* sandbox::macos::escape_seatbelt: a backslash before every backslash and
\* every double quote
EscapeSeatbelt(s) ==
  IF s = <<>> THEN <<>>
  ELSE IF Head(s) \in {"\\", "\""}
       THEN <<"\\", Head(s)>> \o EscapeSeatbelt(Tail(s))
       ELSE <<Head(s)>> \o EscapeSeatbelt(Tail(s))

RECURSIVE UnescapeSeatbelt(_)
\* the string a Seatbelt string literal with this text denotes
UnescapeSeatbelt(s) ==
  IF s = <<>> THEN <<>>
  ELSE IF Head(s) = "\\" /\ Len(s) > 1
       THEN <<s[2]>> \o UnescapeSeatbelt(Tail(Tail(s)))
       ELSE <<Head(s)>> \o UnescapeSeatbelt(Tail(s))

\* a line of the profile without a filter, as "(allow process-exec)"
Rule(verb, op) ==
  [verb |-> verb, op |-> op, filtered |-> FALSE, subpath |-> <<>>]

\* a line "(verb op (subpath "path"))"; the path is written escaped
SubpathRule(verb, op, path) ==
  [verb |-> verb, op |-> op, filtered |-> TRUE, subpath |-> EscapeSeatbelt(path)]

RECURSIVE SubpathRules(_, _, _)
\* one subpath line for every path of a policy list, tilde expanded, in order
SubpathRules(verb, op, paths) ==
  IF paths = <<>> THEN <<>>
  ELSE <<SubpathRule(verb, op, ExpandTilde(Head(paths)))>>
       \o SubpathRules(verb, op, Tail(paths))

\* the lines every profile starts with
ProfileHead ==
  << Rule("version", "1"), Rule("deny", "default"),
     Rule("allow", "process-exec"), Rule("allow", "process-fork"),
     Rule("allow", "signal"), Rule("allow", "sysctl-read"),
     Rule("allow", "file-read*") >>

\* the write rules in front of the policy's own: the blanket deny, the
\* workspace, the two temp directories
ProfileWriteBase(workspace_root) ==
  << Rule("deny", "file-write*"),
     SubpathRule("allow", "file-write*", workspace_root),
     SubpathRule("allow", "file-write*", <<"/", "t", "m", "p">>),
     SubpathRule("allow", "file-write*",
                 <<"/", "p", "r", "i", "v", "a", "t", "e", "/", "t", "m", "p">>) >>

NetworkRule(policy) ==
  IF policy.allow_network THEN Rule("allow", "network*") ELSE Rule("deny", "network*")

\* variant: the deny_write lines are written before the allow_write lines
GenerateProfileDenyFirst(workspace_root, policy) ==
  ProfileHead
  \o SubpathRules("deny", "file-read*", policy.deny_read)
  \o ProfileWriteBase(workspace_root)
  \o SubpathRules("deny", "file-write*", policy.deny_write)
  \o SubpathRules("allow", "file-write*", policy.allow_write)
  \o <<NetworkRule(policy)>>

\* sandbox::macos::generate_profile: the lines of the Seatbelt profile
GenerateProfile(workspace_root, policy) ==
  ProfileHead
  \o SubpathRules("deny", "file-read*", policy.deny_read)
  \o ProfileWriteBase(workspace_root)
  \o SubpathRules("allow", "file-write*", policy.allow_write)
  \o SubpathRules("deny", "file-write*", policy.deny_write)
  \o <<NetworkRule(policy)>>

\* the command line every invocation runs
Command == "cmd"
ShellArgs(cmd) == <<"sh", "-c", cmd>>

NoCommand ==
  [some |-> FALSE, program |-> "", profile |-> <<>>, options |-> <<>>,
   shell |-> <<>>]

\* sandbox::macos::build_command
MacosBuildCommand(cmd, workspace_root, policy) ==
  [some |-> TRUE, program |-> "sandbox-exec",
   profile |-> GenerateProfile(workspace_root, policy),
   options |-> <<>>, shell |-> ShellArgs(cmd)]

\* Path::exists: the path resolves in the file system
PathExists(s) == Canonicalize(s).ok

\* a bwrap option with its path
Mount(opt, path) == [opt |-> opt, path |-> path]

RECURSIVE WritableBinds(_)
\* a read-write bind for every allow_write path that exists, in order
WritableBinds(paths) ==
  IF paths = <<>> THEN <<>>
  ELSE LET expanded == ExpandTilde(Head(paths)) IN
       (IF PathExists(expanded) THEN <<Mount("--bind", expanded)>> ELSE <<>>)
       \o WritableBinds(Tail(paths))

\* the read-only system binds, /proc and /dev; /lib64 when it exists
LinuxBaseOptions ==
  << Mount("--ro-bind", <<"/", "u", "s", "r">>),
     Mount("--ro-bind", <<"/", "l", "i", "b">>),
     Mount("--ro-bind", <<"/", "b", "i", "n">>),
     Mount("--ro-bind", <<"/", "e", "t", "c">>),
     Mount("--proc", <<"/", "p", "r", "o", "c">>),
     Mount("--dev", <<"/", "d", "e", "v">>) >>
  \o (IF PathExists(<<"/", "l", "i", "b", "6", "4">>)
      THEN <<Mount("--ro-bind", <<"/", "l", "i", "b", "6", "4">>)>>
      ELSE <<>>)

\* sandbox::linux::build_command; bwrapOk is the result of the bwrap probe
LinuxBuildCommand(cmd, workspace_root, policy, bwrapOk) ==
  IF ~bwrapOk THEN NoCommand
  ELSE [some |-> TRUE, program |-> "bwrap", profile |-> <<>>,
        options |-> LinuxBaseOptions
                    \o <<Mount("--bind", workspace_root),
                         Mount("--bind", <<"/", "t", "m", "p">>)>>
                    \o WritableBinds(policy.allow_write)
                    \o (IF ~policy.allow_network
                        THEN <<Mount("--unshare-net", <<>>)>> ELSE <<>>),
        shell |-> ShellArgs(cmd)]

\* sandbox::build_sandbox_command for the workspace root of the model
BuildSandboxCommandIn(cmd, workspace_root, policy, os, bwrapOk) ==
  IF ~policy.enabled THEN NoCommand
  ELSE IF os = "macos" THEN MacosBuildCommand(cmd, workspace_root, policy)
  ELSE IF os = "linux" THEN LinuxBuildCommand(cmd, workspace_root, policy, bwrapOk)
  ELSE NoCommand

\* sandbox::build_sandbox_command as execute calls it
BuildSandboxCommand(policy, os, bwrapOk) ==
  BuildSandboxCommandIn(Command, WorkspaceRoot, policy, os, bwrapOk)

\* ------------------------------------------------------------------------
\* The timeout argument (runner.rs)
\* ------------------------------------------------------------------------
\* args.timeout_ms: None, or Some(ms)
NoTimeout == [some |-> FALSE, ms |-> 0]
SomeTimeout(ms) == [some |-> TRUE, ms |-> ms]

DefaultTimeoutMs == 120000
MaxTimeoutMs == 600000

\* requested timeouts: absent, below the default, at the cap, just above it,
\* and the largest value the integers of the model hold (for u64::MAX)
TimeoutArgs ==
  {NoTimeout} \cup {SomeTimeout(ms) : ms \in {500, 600000, 600001, 2147483647}}

Min(a, b) == IF a <= b THEN a ELSE b

\* variant: the requested value is used as it is
EffectiveTimeoutUnclamped(arg) == IF arg.some THEN arg.ms ELSE DefaultTimeoutMs

\* args.timeout_ms.unwrap_or(120_000).min(600_000)
EffectiveTimeout(arg) ==
  Min(IF arg.some THEN arg.ms ELSE DefaultTimeoutMs, MaxTimeoutMs)

\* ------------------------------------------------------------------------
\* Results
\* ------------------------------------------------------------------------
ExitCodes == {0, 42}
NoStatus == [kind |-> "none", val |-> 0]

\* variant: every non-zero exit code is reported as the sentinel
ExitCodeOfCodeLost(st) == IF st.kind = "code" /\ st.val = 0 THEN 0 ELSE -1

\* status.code().unwrap_or(-1)
ExitCodeOf(st) == IF st.kind = "code" THEN st.val ELSE -1

NoRet == [tag |-> "none", err |-> "", exit_code |-> 0, timed_out |-> FALSE,
          cancelled |-> FALSE, sandboxed |-> FALSE, stdout |-> "", stderr |-> ""]

ErrRet(e) == [NoRet EXCEPT !.tag = "Err", !.err = e]

\* the RunCommandResult of the Exited path
ExitedResult(st, sb) ==
  [NoRet EXCEPT !.tag = "Ok", !.exit_code = ExitCodeOf(st), !.timed_out = FALSE,
                !.cancelled = FALSE, !.sandboxed = sb]

\* variant: the kill path never reports a timeout
KilledResultNotTimedOut(c, sb) ==
  [NoRet EXCEPT !.tag = "Ok", !.exit_code = -1, !.timed_out = FALSE,
                !.cancelled = c, !.sandboxed = sb]

\* variant: the kill path always reports a timeout
KilledResultBothFlags(c, sb) ==
  [NoRet EXCEPT !.tag = "Ok", !.exit_code = -1, !.timed_out = TRUE,
                !.cancelled = c, !.sandboxed = sb]

\* the RunCommandResult after the kill
KilledResult(c, sb) ==
  [NoRet EXCEPT !.tag = "Ok", !.exit_code = -1, !.timed_out = ~c,
                !.cancelled = c, !.sandboxed = sb]

\* ------------------------------------------------------------------------
\* State
\* ------------------------------------------------------------------------
VARIABLES
  pc,          \* position of each invocation in run_command / execute
  key,         \* args.cancel_token of the invocation
  workdir,     \* args.workdir (as a string; "." when absent)
  registry,    \* CancelRegistry.inner: key -> token (named by its owner slot)
  flag,        \* the AtomicBool of the token created by each invocation
  lastCancel,  \* return value of the last cancel_command: "none", "true", "false"
  policyFile,  \* ~/.officellm/sandbox-policy.json
  platform,    \* the target_os the binary was built for
  sandboxCmd,  \* sandbox_cmd of execute
  wrapperTry,  \* outcome of spawn_command_with_pgid: "no", "ok", "fail"
  plainTry,    \* outcome of spawn_plain_command: "no", "ok", "fail"
  sandboxed,   \* the local `sandboxed` of execute
  child,       \* the direct child: "none", "running", "zombie", "reaped"
  status,      \* the wait status the kernel holds for the exited, unreaped child
  exitStatus,  \* the status try_wait handed to execute
  desc,        \* a descendant holding the pipes' write ends: "none", "ingroup", "detached"
  timer,       \* timer thread and channel: "off", "armed", "sent", "taken"
  cancelled,   \* the local `cancelled` of execute
  outcome,     \* state of the execution loop: "Running", "Exited", "TimedOut", "Cancelled"
  fd,          \* the stdout/stderr descriptors: "none", "open", "closed"
  rd,          \* the reader thread of each pipe: "none", "reading", "sent"
  got,         \* whether recv_timeout received the reader's buffer
  execRet,     \* the value execute returned
  rcRet,       \* the value run_command returned
  firedWhileRunning,  \* history: the child was running when the timer fired
  cancelWhileRunning, \* history: the flag was set while the child ran and the timer was armed
  timeoutArg,  \* args.timeout_ms of the invocation
  armedMs,     \* the duration the timer thread sleeps, once it is started
  wrote,       \* what the command has written to each pipe: "" or "data"
  peerPc,      \* another run_command invocation, seen from the registry: "idle", "running"
  peerKey,     \* its args.cancel_token
  call,        \* a direct call of one of the pure functions
  ret,         \* the value that call returned
  exitedAtDetect,  \* history, kept until the kill: what the child did by the time the
                   \* timeout or the cancel was seen: "none", "running", "exited", "same_tick"
  tickEvents,  \* history: timer firing / flag setting since the exit check of the iteration
  termLog,     \* history: the termination steps execute has made, in order
  server       \* the officellm server session manager and the requests in flight

vars == <<pc, key, workdir, registry, flag, lastCancel, policyFile,
          platform, sandboxCmd, wrapperTry, plainTry, sandboxed, child,
          status, exitStatus,
          desc, timer, cancelled, outcome, fd, rd, got, execRet, rcRet,
          firedWhileRunning, cancelWhileRunning,
          timeoutArg, armedMs, wrote, peerPc, peerKey, call, ret,
          exitedAtDetect, tickEvents, termLog, server>>

\* what only the actions written for them change
sideVars == <<timeoutArg, wrote, peerPc, peerKey, call, ret, server>>
\* what single steps of execute record
histVars == <<armedMs, exitedAtDetect, tickEvents, termLog>>

Pipes == {"out", "err"}

\* the token of the other invocation; every token is named by its owner
Peer == "peer"
Tokens == Slots \cup {Peer}

\* ------------------------------------------------------------------------
\* Direct calls of the pure functions
\* ------------------------------------------------------------------------
\* longest allow_write / deny_write list of a call
MaxPolicyPaths == 2

\* paths a policy list may hold: an existing directory outside the workspace,
\* one inside it, one below the home directory, one with a double quote
PolicyPaths ==
  { <<"/", "o">>, <<"/", "w", "/", "s">>, <<"~", "/", "d">>, <<"/", "q", "\"">> }

PathLists == UNION { [1..n -> PolicyPaths] : n \in 0..MaxPolicyPaths }

CallPolicies ==
  { [enabled |-> e, deny_read |-> DefaultPolicy.deny_read, allow_write |-> a,
     deny_write |-> d, allow_network |-> n] :
      e \in BOOLEAN, a \in PathLists, d \in PathLists, n \in BOOLEAN }

\* workspace roots and paths handed to ensure_inside_workspace_exists
ValidateRoots ==
  { WorkspaceRoot, <<"/", "w", "/">>, <<"/", "w", "/", "l">>, <<"/", "n">>, <<"/">> }
ValidatePaths ==
  WorkdirArgs \cup
  { <<"s">>, <<"/", "w", "/", "s">>, <<"s", "/", ".", ".">>, <<"/", "w">>,
    <<"/", "w", "/", "l">>, <<"s", "/", ".", ".", "/", ".", ".", "/", "w", "x">>,
    <<"/", "w", "/", "n">>, <<"/">> }

NoCall ==
  [fn |-> "none", policy |-> DefaultPolicy, bwrapOk |-> FALSE,
   root |-> WorkspaceRoot, path |-> WorkdirDefault]
BuildCalls ==
  { [NoCall EXCEPT !.fn = "build_sandbox_command", !.policy = p, !.bwrapOk = b] :
      p \in CallPolicies, b \in BOOLEAN }
ValidateCalls ==
  { [NoCall EXCEPT !.fn = "ensure_inside_workspace_exists", !.root = r, !.path = p] :
      r \in ValidateRoots, p \in ValidatePaths }

NoResult == [done |-> FALSE, cmd |-> NoCommand, val |-> NotFoundPath]

\* ------------------------------------------------------------------------
\* The officellm server session (officellm/server/mod.rs): bounds and the
\* state before any session is opened
\* ------------------------------------------------------------------------
\* sessions opened in one behaviour; a session is known by its number
MaxSessions == 2
\* the threads that issue call / save requests
Callers == {"c1", "c2"}

\* SESSION = None.  session: the number of the session held in SESSION, 0 for
\* None; io: the session whose I/O handles are in its `io` field, 0 for None;
\* opened: sessions opened so far; killed: sessions whose process was killed;
\* req: for every caller its position in call/save and the session whose
\* handles it took
NoServer ==
  [session |-> 0, io |-> 0, opened |-> 0, killed |-> {},
   req |-> [c \in Callers |-> [pc |-> "idle", gen |-> 0]]]

\* nothing has been started
IdleInit ==
  /\ pc = [i \in Slots |-> "idle"]
  /\ key = [i \in Slots |-> NoKey]
  /\ workdir = [i \in Slots |-> WorkdirDefault]
  /\ registry = [k \in CancelKeys |-> NoToken]
  /\ flag = [t \in Tokens |-> FALSE]
  /\ lastCancel = "none"
  /\ policyFile = AbsentFile
  /\ platform \in Platforms
  /\ sandboxCmd = [i \in Slots |-> NoCommand]
  /\ wrapperTry = [i \in Slots |-> "no"]
  /\ plainTry = [i \in Slots |-> "no"]
  /\ sandboxed = [i \in Slots |-> FALSE]
  /\ child = [i \in Slots |-> "none"]
  /\ status = [i \in Slots |-> NoStatus]
  /\ exitStatus = [i \in Slots |-> NoStatus]
  /\ desc = [i \in Slots |-> "none"]
  /\ timer = [i \in Slots |-> "off"]
  /\ cancelled = [i \in Slots |-> FALSE]
  /\ outcome = [i \in Slots |-> "Running"]
  /\ fd = [i \in Slots |-> "none"]
  /\ rd = [i \in Slots |-> [p \in Pipes |-> "none"]]
  /\ got = [i \in Slots |-> [p \in Pipes |-> FALSE]]
  /\ execRet = [i \in Slots |-> NoRet]
  /\ rcRet = [i \in Slots |-> NoRet]
  /\ firedWhileRunning = [i \in Slots |-> FALSE]
  /\ cancelWhileRunning = [i \in Slots |-> FALSE]
  /\ armedMs = [i \in Slots |-> 0]
  /\ wrote = [i \in Slots |-> [p \in Pipes |-> ""]]
  /\ peerPc = "idle"
  /\ peerKey = NoKey
  /\ exitedAtDetect = [i \in Slots |-> "none"]
  /\ tickEvents = [i \in Slots |-> {}]
  /\ termLog = [i \in Slots |-> <<>>]
  /\ server = NoServer

\* the frontend leaves the timeout to its default, no pure function is called
Init ==
  /\ IdleInit
  /\ timeoutArg = [i \in Slots |-> NoTimeout]
  /\ call = NoCall
  /\ ret = NoResult

\* ------------------------------------------------------------------------
\* Cancel registry (shell_commands/cancel.rs)
\* ------------------------------------------------------------------------
\* variant: register leaves the map as it was
RegisterMapDropped(reg, k, tok) == reg

\* CancelRegistry::register: a fresh token (flag false) stored under key
RegisterMap(reg, k, tok) == [reg EXCEPT ![k] = tok]

\* variant: the new token takes over the flag its owner had before
RegisterFlagsKept(flg, tok) == flg

\* the flag of the fresh token is false
RegisterFlags(flg, tok) == [flg EXCEPT ![tok] = FALSE]

\* variant: the token is found but its flag is left as it is
CancelFlagsDropped(reg, flg, k) == flg

\* variant: a cancel for any key sets the flag of every token
CancelFlagsAll(reg, flg, k) == [i \in DOMAIN flg |-> TRUE]

\* CancelRegistry::cancel: the flags after the call, and its return value
CancelFlags(reg, flg, k) ==
  IF reg[k] # NoToken THEN [flg EXCEPT ![reg[k]] = TRUE] ELSE flg
CancelFound(reg, k) == reg[k] # NoToken

\* CancelRegistry::remove
RemoveKey(reg, k) == [reg EXCEPT ![k] = NoToken]

\* ------------------------------------------------------------------------
\* run_command and cancel_command (shell_commands/mod.rs)
\* ------------------------------------------------------------------------
\* run_command up to spawn_blocking: register the token, queue the worker
RunCommand(i) ==
  /\ pc[i] = "idle"
  /\ \E k \in Keys \cup {NoKey}, w \in WorkdirArgs :
       /\ key' = [key EXCEPT ![i] = k]
       /\ workdir' = [workdir EXCEPT ![i] = w]
       /\ IF k # NoKey
          THEN /\ registry' = RegisterMap(registry, k, i)
               /\ flag' = RegisterFlags(flag, i)
          ELSE UNCHANGED <<registry, flag>>
  /\ pc' = [pc EXCEPT ![i] = "queued"]
  /\ UNCHANGED <<lastCancel, policyFile, platform,
                 sandboxCmd, wrapperTry, plainTry, sandboxed, child, status, exitStatus, desc,
                 timer, cancelled, outcome, fd, rd, got, execRet, rcRet,
                 firedWhileRunning, cancelWhileRunning>>
  /\ UNCHANGED sideVars
  /\ UNCHANGED histVars

\* the await of the blocking task yields a JoinError (the task was cancelled
\* before it ran): run_command returns through `?` without reaching remove
JoinFail(i) ==
  /\ pc[i] = "queued"
  /\ rcRet' = [rcRet EXCEPT ![i] = ErrRet("task join error")]
  /\ pc' = [pc EXCEPT ![i] = "done"]
  /\ UNCHANGED <<key, workdir, registry, flag, lastCancel, policyFile,
                 platform, sandboxCmd, wrapperTry, plainTry, sandboxed,
                 child, status, exitStatus, desc, timer, cancelled, outcome, fd, rd, got,
                 execRet, firedWhileRunning, cancelWhileRunning>>
  /\ UNCHANGED sideVars
  /\ UNCHANGED histVars

\* run_command after the await: remove the key, hand the result on
Finish(i) ==
  /\ pc[i] = "returned"
  /\ registry' = IF key[i] # NoKey THEN RemoveKey(registry, key[i]) ELSE registry
  /\ rcRet' = [rcRet EXCEPT ![i] = execRet[i]]
  /\ pc' = [pc EXCEPT ![i] = "done"]
  /\ UNCHANGED <<key, workdir, flag, lastCancel, policyFile,
                 platform, sandboxCmd, wrapperTry, plainTry, sandboxed,
                 child, status, exitStatus, desc, timer, cancelled, outcome, fd, rd, got,
                 execRet, firedWhileRunning, cancelWhileRunning>>
  /\ UNCHANGED sideVars
  /\ UNCHANGED histVars

\* cancel_command(token)
CancelCommand(k) ==
  /\ flag' = CancelFlags(registry, flag, k)
  /\ lastCancel' = IF CancelFound(registry, k) THEN "true" ELSE "false"
  /\ cancelWhileRunning' =
       [i \in Slots |-> cancelWhileRunning[i]
                        \/ (/\ registry[k] = i
                            /\ child[i] = "running"
                            /\ timer[i] \in {"off", "armed"})]
  /\ UNCHANGED <<pc, key, workdir, registry, policyFile, platform,
                 sandboxCmd, wrapperTry, plainTry, sandboxed, child, status, exitStatus, desc,
                 timer, cancelled, outcome, fd, rd, got, execRet, rcRet,
                 firedWhileRunning>>
  /\ UNCHANGED sideVars
  /\ tickEvents' =
       [i \in Slots |-> IF /\ registry[k] = i
                           /\ ~flag[i]
                           /\ pc[i] \in {"poll_timer", "poll_cancel"}
                        THEN tickEvents[i] \cup {"cancel"}
                        ELSE tickEvents[i]]
  /\ UNCHANGED <<armedMs, exitedAtDetect, termLog>>

\* set_sandbox_policy -> save_policy
SavePolicy(p) ==
  /\ policyFile' = [state |-> "valid", policy |-> p]
  /\ UNCHANGED <<pc, key, workdir, registry, flag, lastCancel, platform,
                 sandboxCmd, wrapperTry, plainTry, sandboxed, child, status, exitStatus, desc,
                 timer, cancelled, outcome, fd, rd, got, execRet, rcRet,
                 firedWhileRunning, cancelWhileRunning>>
  /\ UNCHANGED sideVars
  /\ UNCHANGED histVars

\* ------------------------------------------------------------------------
\* execute (shell_commands/runner.rs)
\* ------------------------------------------------------------------------
\* what no step of execute touches
ctlVars == <<key, workdir, registry, flag, lastCancel, policyFile,
             platform, rcRet, cancelWhileRunning,
             timeoutArg, wrote, peerPc, peerKey, call, ret, server>>

IsUnix == platform \in {"macos", "linux"}

\* the working directory check: an error returns before anything is spawned
Validate(i) ==
  /\ pc[i] = "queued"
  /\ LET r == EnsureInsideWorkspaceExists(WorkspaceRoot, workdir[i]) IN
       IF r.ok
       THEN /\ pc' = [pc EXCEPT ![i] = "build"]
            /\ UNCHANGED execRet
       ELSE /\ pc' = [pc EXCEPT ![i] = "returned"]
            /\ execRet' = [execRet EXCEPT ![i] = ErrRet(r.err)]
  /\ UNCHANGED <<sandboxCmd, wrapperTry, plainTry, sandboxed, child, status, exitStatus, desc,
                 timer, cancelled, outcome, fd, rd, got, firedWhileRunning>>
  /\ UNCHANGED ctlVars
  /\ UNCHANGED histVars

\* load_policy, the temp whitelist added to the copy, build_sandbox_command
BuildSandbox(i) ==
  /\ pc[i] = "build"
  /\ \E bwrapOk \in BOOLEAN :
       LET loaded == LoadPolicy(policyFile)
           policy == [loaded EXCEPT !.allow_write = @ \o SandboxTempWhitelist]
       IN sandboxCmd' = [sandboxCmd EXCEPT ![i] =
                           BuildSandboxCommand(policy, platform, bwrapOk)]
  /\ pc' = [pc EXCEPT ![i] = "spawn"]
  /\ UNCHANGED <<wrapperTry, plainTry, sandboxed, child, status, exitStatus, desc, timer,
                 cancelled, outcome, fd, rd, got, execRet, firedWhileRunning>>
  /\ UNCHANGED ctlVars
  /\ UNCHANGED histVars

\* variant: a wrapper that fails to spawn fails the operation
SpawnOutcomeNoFallback(cmd, wrapperOk, plainOk) ==
  IF cmd.some
  THEN IF wrapperOk
       THEN [wrapper |-> "ok", plain |-> "no", spawned |-> TRUE, sandboxed |-> TRUE]
       ELSE [wrapper |-> "fail", plain |-> "no", spawned |-> FALSE, sandboxed |-> FALSE]
  ELSE [wrapper |-> "no", plain |-> IF plainOk THEN "ok" ELSE "fail",
        spawned |-> plainOk, sandboxed |-> FALSE]

\* variant: the flag tells whether a wrapper was built, not whether it ran
SpawnOutcomeFlagFromBuild(cmd, wrapperOk, plainOk) ==
  IF cmd.some
  THEN IF wrapperOk
       THEN [wrapper |-> "ok", plain |-> "no", spawned |-> TRUE, sandboxed |-> TRUE]
       ELSE [wrapper |-> "fail", plain |-> IF plainOk THEN "ok" ELSE "fail",
             spawned |-> plainOk, sandboxed |-> TRUE]
  ELSE [wrapper |-> "no", plain |-> IF plainOk THEN "ok" ELSE "fail",
        spawned |-> plainOk, sandboxed |-> FALSE]

\* the spawn with its fallback: what was tried, whether a child exists, and
\* the `sandboxed` flag
SpawnOutcome(cmd, wrapperOk, plainOk) ==
  IF cmd.some
  THEN IF wrapperOk
       THEN [wrapper |-> "ok", plain |-> "no", spawned |-> TRUE, sandboxed |-> TRUE]
       ELSE [wrapper |-> "fail", plain |-> IF plainOk THEN "ok" ELSE "fail",
             spawned |-> plainOk, sandboxed |-> FALSE]
  ELSE [wrapper |-> "no", plain |-> IF plainOk THEN "ok" ELSE "fail",
        spawned |-> plainOk, sandboxed |-> FALSE]

SpawnChild(i) ==
  /\ pc[i] = "spawn"
  /\ \E wrapperOk \in BOOLEAN, plainOk \in BOOLEAN :
       LET o == SpawnOutcome(sandboxCmd[i], wrapperOk, plainOk) IN
         /\ wrapperTry' = [wrapperTry EXCEPT ![i] = o.wrapper]
         /\ plainTry' = [plainTry EXCEPT ![i] = o.plain]
         /\ sandboxed' = [sandboxed EXCEPT ![i] = o.sandboxed]
         /\ IF o.spawned
            THEN /\ child' = [child EXCEPT ![i] = "running"]
                 /\ fd' = [fd EXCEPT ![i] = "open"]
                 /\ pc' = [pc EXCEPT ![i] = "timer"]
                 /\ UNCHANGED execRet
            ELSE /\ pc' = [pc EXCEPT ![i] = "returned"]
                 /\ execRet' = [execRet EXCEPT ![i] = ErrRet("spawn")]
                 /\ UNCHANGED <<child, fd>>
  /\ UNCHANGED <<sandboxCmd, status, exitStatus, desc, timer, cancelled, outcome, rd, got,
                 firedWhileRunning>>
  /\ UNCHANGED ctlVars
  /\ UNCHANGED histVars

\* the pipes are taken from the child, the timer thread is started
StartTimer(i) ==
  /\ pc[i] = "timer"
  /\ armedMs' = [armedMs EXCEPT ![i] = EffectiveTimeout(timeoutArg[i])]
  /\ timer' = [timer EXCEPT ![i] = "armed"]
  /\ pc' = [pc EXCEPT ![i] = "poll_wait"]
  /\ UNCHANGED <<sandboxCmd, wrapperTry, plainTry, sandboxed, child, status, exitStatus, desc,
                 cancelled, outcome, fd, rd, got, execRet, firedWhileRunning>>
  /\ UNCHANGED ctlVars
  /\ UNCHANGED <<exitedAtDetect, tickEvents, termLog>>

\* variant: try_wait never reports the exit
ExitVisibleNever(c) == FALSE

\* child.try_wait() returns Some(status): the child has exited, is not yet reaped
ExitVisible(c) == c = "zombie"

\* variant: a reaped child leads out of the loop to the termination step
PcAfterExitBreak == "kill_group"

\* try_wait has handed over the status: execute drains the pipes and returns
\* from inside the loop
PcAfterExit == "drain"

\* poll loop, first check: child.try_wait() reaps an exited child
PollTryWait(i) ==
  /\ pc[i] = "poll_wait"
  /\ IF ExitVisible(child[i])
     THEN /\ child' = [child EXCEPT ![i] = "reaped"]
          /\ exitStatus' = [exitStatus EXCEPT ![i] = status[i]]
          /\ status' = [status EXCEPT ![i] = NoStatus]
          /\ outcome' = [outcome EXCEPT ![i] = "Exited"]
          /\ termLog' = [termLog EXCEPT ![i] = Append(@, "try_wait")]
          /\ pc' = [pc EXCEPT ![i] = PcAfterExit]
     ELSE /\ pc' = [pc EXCEPT ![i] = "poll_timer"]
          /\ UNCHANGED <<child, status, exitStatus, outcome, termLog>>
  /\ UNCHANGED <<sandboxCmd, wrapperTry, plainTry, sandboxed, desc, timer,
                 cancelled, fd, rd, got, execRet, firedWhileRunning>>
  /\ UNCHANGED ctlVars
  /\ tickEvents' = [tickEvents EXCEPT ![i] = {}]
  /\ UNCHANGED <<armedMs, exitedAtDetect>>

\* the child at the moment the loop decides for TimedOut or Cancelled: still
\* running, exited since the exit check of this iteration, or exited since
\* then with the timer firing / the flag being set since then as well
DetectKind(c, eventInTick) ==
  IF c # "zombie" THEN "running"
  ELSE IF eventInTick THEN "same_tick" ELSE "exited"

\* variant: the timer channel is never looked at
TimerReceivedNever(t) == FALSE

\* rx.try_recv().is_ok(): the signal of the timer thread is in the channel
TimerReceived(t) == t = "sent"

\* poll loop, second check: rx.try_recv() of the timer channel
PollTryRecv(i) ==
  /\ pc[i] = "poll_timer"
  /\ IF TimerReceived(timer[i])
     THEN /\ timer' = [timer EXCEPT ![i] = "taken"]
          /\ outcome' = [outcome EXCEPT ![i] = "TimedOut"]
          /\ exitedAtDetect' = [exitedAtDetect EXCEPT ![i] =
                                  DetectKind(child[i], "fire" \in tickEvents[i])]
          /\ tickEvents' = [tickEvents EXCEPT ![i] = {}]
          /\ pc' = [pc EXCEPT ![i] = "kill_group"]
     ELSE /\ pc' = [pc EXCEPT ![i] = "poll_cancel"]
          /\ UNCHANGED <<timer, outcome, exitedAtDetect, tickEvents>>
  /\ UNCHANGED <<sandboxCmd, wrapperTry, plainTry, sandboxed, child, status, exitStatus, desc,
                 cancelled, fd, rd, got, execRet, firedWhileRunning>>
  /\ UNCHANGED ctlVars
  /\ UNCHANGED <<armedMs, termLog>>

\* variant: the loop never looks at the token
CancelSeenNever(k, f) == FALSE

\* the cancel check: a token is present and its flag is set
CancelSeen(k, f) == k # NoKey /\ f

\* poll loop, third check: the cancel token; then the 50 ms sleep
PollCancel(i) ==
  /\ pc[i] = "poll_cancel"
  /\ IF CancelSeen(key[i], flag[i])
     THEN /\ cancelled' = [cancelled EXCEPT ![i] = TRUE]
          /\ outcome' = [outcome EXCEPT ![i] = "Cancelled"]
          /\ exitedAtDetect' = [exitedAtDetect EXCEPT ![i] =
                                  DetectKind(child[i], "cancel" \in tickEvents[i])]
          /\ pc' = [pc EXCEPT ![i] = "kill_group"]
     ELSE /\ pc' = [pc EXCEPT ![i] = "poll_wait"]
          /\ UNCHANGED <<cancelled, outcome, exitedAtDetect>>
  /\ UNCHANGED <<sandboxCmd, wrapperTry, plainTry, sandboxed, child, status, exitStatus, desc,
                 timer, fd, rd, got, execRet, firedWhileRunning>>
  /\ UNCHANGED ctlVars
  /\ tickEvents' = [tickEvents EXCEPT ![i] = {}]
  /\ UNCHANGED <<armedMs, termLog>>

KillStatus == [kind |-> "signal", val |-> 9]

\* variant: the signal reaches the direct child only
DescAfterKillpgSpared(d) == d

\* killpg(pid, SIGKILL) ends a descendant that is still in the group
DescAfterKillpg(d) == IF d = "ingroup" THEN "none" ELSE d

\* variant: the signal does not end a running child
ChildAfterKillMissed(c) == c

\* SIGKILL ends a child that still runs; sent to a child that has exited, or
\* has been reaped, it changes nothing and its error is dropped
ChildAfterKill(c) == IF c = "running" THEN "zombie" ELSE c

\* kill_process_group(pid): SIGKILL to the group on Unix, nothing elsewhere
KillGroup(i) ==
  /\ pc[i] = "kill_group"
  /\ IF IsUnix
     THEN /\ child' = [child EXCEPT ![i] = ChildAfterKill(@)]
          /\ status' = [status EXCEPT ![i] =
                          IF child[i] = "running" THEN KillStatus ELSE @]
          /\ desc' = [desc EXCEPT ![i] = DescAfterKillpg(@)]
     ELSE UNCHANGED <<child, status, desc>>
  /\ termLog' = [termLog EXCEPT ![i] = Append(@, "killpg")]
  /\ pc' = [pc EXCEPT ![i] = "kill_child"]
  /\ UNCHANGED <<exitStatus, sandboxCmd, wrapperTry, plainTry, sandboxed, timer, cancelled,
                 outcome, fd, rd, got, execRet, firedWhileRunning>>
  /\ UNCHANGED ctlVars
  /\ exitedAtDetect' = [exitedAtDetect EXCEPT ![i] = "none"]
  /\ UNCHANGED <<armedMs, tickEvents>>

\* variant: the wait for the killed child is left out
PcAfterKillChildNoWait == "drain"

\* what follows child.kill(): child.wait()
PcAfterKillChild == "wait_child"

\* child.kill(): kills the direct child if it still runs
KillChild(i) ==
  /\ pc[i] = "kill_child"
  /\ child' = [child EXCEPT ![i] = ChildAfterKill(@)]
  /\ status' = [status EXCEPT ![i] = IF child[i] = "running" THEN KillStatus ELSE @]
  /\ termLog' = [termLog EXCEPT ![i] = Append(@, "kill")]
  /\ pc' = [pc EXCEPT ![i] = PcAfterKillChild]
  /\ UNCHANGED <<exitStatus, sandboxCmd, wrapperTry, plainTry, sandboxed, desc, timer,
                 cancelled, outcome, fd, rd, got, execRet, firedWhileRunning>>
  /\ UNCHANGED ctlVars
  /\ UNCHANGED <<armedMs, exitedAtDetect, tickEvents>>

\* child.wait(): blocks until the child has exited, then reaps it; for a
\* child that was reaped before, it returns the status it has kept
WaitChild(i) ==
  /\ pc[i] = "wait_child"
  /\ child[i] \in {"zombie", "reaped"}
  /\ child' = [child EXCEPT ![i] = "reaped"]
  /\ status' = [status EXCEPT ![i] = NoStatus]
  /\ termLog' = [termLog EXCEPT ![i] = Append(@, "wait")]
  /\ pc' = [pc EXCEPT ![i] = "drain"]
  /\ UNCHANGED <<sandboxCmd, wrapperTry, plainTry, sandboxed, exitStatus, desc, timer,
                 cancelled, outcome, fd, rd, got, execRet, firedWhileRunning>>
  /\ UNCHANGED ctlVars
  /\ UNCHANGED <<armedMs, exitedAtDetect, tickEvents>>

\* drain_pipes_with_timeout: the descriptors are taken over, a reader thread
\* is started for each pipe
DrainStart(i) ==
  /\ pc[i] = "drain"
  /\ rd' = [rd EXCEPT ![i] = [p \in Pipes |-> "reading"]]
  /\ termLog' = [termLog EXCEPT ![i] = Append(@, "drain")]
  /\ pc' = [pc EXCEPT ![i] = "recv_out"]
  /\ UNCHANGED <<sandboxCmd, wrapperTry, plainTry, sandboxed, child, status, exitStatus, desc,
                 timer, cancelled, outcome, fd, got, execRet, firedWhileRunning>>
  /\ UNCHANGED ctlVars
  /\ UNCHANGED <<armedMs, exitedAtDetect, tickEvents>>

\* variant: a plain recv(), which returns only when the reader has sent
RecvBlocks(r) == r = "sent"

\* recv_timeout(DRAIN_TIMEOUT) returns when the reader r has sent its buffer
\* or when the timeout has elapsed, whichever the scheduling brings first
RecvReturns(r) == TRUE

RecvPc(p) == IF p = "out" THEN "recv_out" ELSE "recv_err"
AfterRecvPc(p) == IF p = "out" THEN "recv_err" ELSE "close_fds"

\* the bounded wait for the reader of pipe p; unwrap_or_default on timeout
Recv(i, p) ==
  /\ pc[i] = RecvPc(p)
  /\ RecvReturns(rd[i][p])
  /\ got' = [got EXCEPT ![i][p] = (rd[i][p] = "sent")]
  /\ pc' = [pc EXCEPT ![i] = AfterRecvPc(p)]
  /\ UNCHANGED <<sandboxCmd, wrapperTry, plainTry, sandboxed, child, status, exitStatus, desc,
                 timer, cancelled, outcome, fd, rd, execRet, firedWhileRunning>>
  /\ UNCHANGED ctlVars
  /\ UNCHANGED histVars

\* the result record execute builds on the path it took
ResultOf(oc, st, c, sb) ==
  IF oc = "Exited" THEN ExitedResult(st, sb) ELSE KilledResult(c, sb)

\* variant: a stream is returned empty whatever was received
CapturedNothing(g, w) == ""

\* recv_timeout(..).unwrap_or_default(): the buffer the reader sent, or the
\* empty string when the wait timed out
Captured(g, w) == IF g THEN w ELSE ""

\* the result with its two streams
WithOutput(r, out, err) == [r EXCEPT !.stdout = out, !.stderr = err]

\* variant: the descriptors are left as the readers hold them
FdAfterDrainLeaked(f, unix) == f

\* libc::close on both descriptors in the Unix branch; the other branch has
\* handed the pipes to the reader threads and closes nothing
FdAfterDrain(f, unix) == IF unix THEN "closed" ELSE f

\* the descriptors are closed (Unix) and execute returns its result
CloseFds(i) ==
  /\ pc[i] = "close_fds"
  /\ fd' = [fd EXCEPT ![i] = FdAfterDrain(@, IsUnix)]
  /\ execRet' = [execRet EXCEPT ![i] =
                   WithOutput(ResultOf(outcome[i], exitStatus[i], cancelled[i],
                                       sandboxed[i]),
                              Captured(got[i]["out"], wrote[i]["out"]),
                              Captured(got[i]["err"], wrote[i]["err"]))]
  /\ termLog' = [termLog EXCEPT ![i] = Append(@, "return")]
  /\ pc' = [pc EXCEPT ![i] = "returned"]
  /\ UNCHANGED <<sandboxCmd, wrapperTry, plainTry, sandboxed, child, status, exitStatus, desc,
                 timer, cancelled, outcome, rd, got, firedWhileRunning>>
  /\ UNCHANGED ctlVars
  /\ UNCHANGED <<armedMs, exitedAtDetect, tickEvents>>

\* ------------------------------------------------------------------------
\* The environment of execute: threads it started and processes it spawned
\* ------------------------------------------------------------------------
envFrame == <<pc, sandboxCmd, wrapperTry, plainTry, sandboxed, cancelled, outcome,
              execRet>>

\* every write end of the pipes is closed: the readers see end-of-file
PipeEof(i) == child[i] # "running" /\ desc[i] = "none"

\* a reader thread: read_to_string reaches end-of-file, the buffer is sent
ReaderEof(i, p) ==
  /\ rd[i][p] = "reading"
  /\ fd[i] = "open"
  /\ PipeEof(i)
  /\ rd' = [rd EXCEPT ![i][p] = "sent"]
  /\ UNCHANGED <<child, status, exitStatus, desc, timer, fd, got, firedWhileRunning>>
  /\ UNCHANGED envFrame
  /\ UNCHANGED ctlVars
  /\ UNCHANGED histVars

\* a reader thread whose descriptor was closed under it: its next read fails
\* and the thread ends; the receiver is gone, the buffer is dropped
ReaderClosed(i, p) ==
  /\ rd[i][p] = "reading"
  /\ fd[i] = "closed"
  /\ rd' = [rd EXCEPT ![i][p] = "ended"]
  /\ UNCHANGED <<child, status, exitStatus, desc, timer, fd, got, firedWhileRunning>>
  /\ UNCHANGED envFrame
  /\ UNCHANGED ctlVars
  /\ UNCHANGED histVars

\* the timer thread: sleep(timeout) is over, the signal is sent
TimerFire(i) ==
  /\ timer[i] = "armed"
  /\ timer' = [timer EXCEPT ![i] = "sent"]
  /\ firedWhileRunning' = [firedWhileRunning EXCEPT ![i] = (child[i] = "running")]
  /\ UNCHANGED <<child, status, exitStatus, desc, fd, rd, got>>
  /\ UNCHANGED envFrame
  /\ UNCHANGED ctlVars
  /\ tickEvents' = [tickEvents EXCEPT ![i] =
                      IF pc[i] = "poll_timer" THEN @ \cup {"fire"} ELSE @]
  /\ UNCHANGED <<armedMs, exitedAtDetect, termLog>>

\* wait statuses of a command that ends on its own: an exit code, or a signal
NaturalStatuses ==
  {[kind |-> "code", val |-> c] : c \in ExitCodes} \cup {[kind |-> "signal", val |-> 15]}

\* the command ends on its own
ChildExit(i) ==
  /\ child[i] = "running"
  /\ \E st \in NaturalStatuses : status' = [status EXCEPT ![i] = st]
  /\ child' = [child EXCEPT ![i] = "zombie"]
  /\ UNCHANGED <<exitStatus, desc, timer, fd, rd, got, firedWhileRunning>>
  /\ UNCHANGED envFrame
  /\ UNCHANGED ctlVars
  /\ UNCHANGED histVars

\* the command leaves a descendant that inherited the pipes: a background job
\* of the same process group, or one that moved to a session of its own
ChildFork(i, d) ==
  /\ child[i] = "running"
  /\ desc[i] = "none"
  /\ desc' = [desc EXCEPT ![i] = d]
  /\ UNCHANGED <<child, status, exitStatus, timer, fd, rd, got, firedWhileRunning>>
  /\ UNCHANGED envFrame
  /\ UNCHANGED ctlVars
  /\ UNCHANGED histVars

\* the descendant ends on its own
DescExit(i) ==
  /\ desc[i] # "none"
  /\ desc' = [desc EXCEPT ![i] = "none"]
  /\ UNCHANGED <<child, status, exitStatus, timer, fd, rd, got, firedWhileRunning>>
  /\ UNCHANGED envFrame
  /\ UNCHANGED ctlVars
  /\ UNCHANGED histVars

\* ------------------------------------------------------------------------
\* Specification
\* ------------------------------------------------------------------------
\* the steps of the worker thread of invocation i
Worker(i) ==
  \/ Validate(i)
  \/ BuildSandbox(i)
  \/ SpawnChild(i)
  \/ StartTimer(i)
  \/ PollTryWait(i)
  \/ PollTryRecv(i)
  \/ PollCancel(i)
  \/ KillGroup(i)
  \/ KillChild(i)
  \/ WaitChild(i)
  \/ DrainStart(i)
  \/ Recv(i, "out")
  \/ Recv(i, "err")
  \/ CloseFds(i)

Next ==
  \/ \E i \in Slots : RunCommand(i)
  \/ \E i \in Slots : JoinFail(i)
  \/ \E i \in Slots : Worker(i)
  \/ \E i \in Slots : Finish(i)
  \/ \E k \in CancelKeys : CancelCommand(k)
  \/ \E p \in SavedPolicies : SavePolicy(p)
  \/ \E i \in Slots, p \in Pipes : ReaderEof(i, p)
  \/ \E i \in Slots, p \in Pipes : ReaderClosed(i, p)
  \/ \E i \in Slots : TimerFire(i)
  \/ \E i \in Slots : ChildExit(i)
  \/ \E i \in Slots, d \in {"ingroup", "detached"} : ChildFork(i, d)
  \/ \E i \in Slots : DescExit(i)

Spec == Init /\ [][Next]_vars

\* the worker thread of a started invocation keeps being scheduled, and so
\* does the async task that awaits it
FairSpec ==
  /\ Spec
  /\ \A i \in Slots : WF_vars(Worker(i))
  /\ \A i \in Slots : WF_vars(Finish(i))

\* ------------------------------------------------------------------------
\* Requested timeouts: the same steps, started with any timeout argument
\* ------------------------------------------------------------------------
TimeoutInit ==
  /\ IdleInit
  /\ timeoutArg \in [Slots -> TimeoutArgs]
  /\ call = NoCall
  /\ ret = NoResult

TimeoutSpec == TimeoutInit /\ [][Next]_vars

\* ------------------------------------------------------------------------
\* Output: the command writes to its pipes
\* ------------------------------------------------------------------------
\* the running command writes to pipe p
ChildWrite(i, p) ==
  /\ child[i] = "running"
  /\ wrote[i][p] = ""
  /\ wrote' = [wrote EXCEPT ![i][p] = "data"]
  /\ UNCHANGED <<child, status, exitStatus, desc, timer, fd, rd, got, firedWhileRunning>>
  /\ UNCHANGED envFrame
  /\ UNCHANGED <<key, workdir, registry, flag, lastCancel, policyFile, platform,
                 rcRet, cancelWhileRunning, timeoutArg, peerPc, peerKey, call, ret,
                 server>>
  /\ UNCHANGED histVars

OutNext ==
  \/ Next
  \/ \E i \in Slots, p \in Pipes : ChildWrite(i, p)

OutSpec == Init /\ [][OutNext]_vars

\* ------------------------------------------------------------------------
\* A second invocation of run_command, as the registry sees it
\* ------------------------------------------------------------------------
peerFrame == <<pc, key, workdir, lastCancel, policyFile, platform, sandboxCmd,
               wrapperTry, plainTry, sandboxed, child, status, exitStatus, desc,
               timer, cancelled, outcome, fd, rd, got, execRet, rcRet,
               firedWhileRunning, cancelWhileRunning, timeoutArg, wrote, call, ret,
               server>>

\* run_command of the other invocation registers its token under key k
PeerRegister(k) ==
  /\ peerPc = "idle"
  /\ registry' = RegisterMap(registry, k, Peer)
  /\ flag' = RegisterFlags(flag, Peer)
  /\ peerKey' = k
  /\ peerPc' = "running"
  /\ UNCHANGED peerFrame
  /\ UNCHANGED histVars

\* its execute has returned: run_command removes the key
PeerFinish ==
  /\ peerPc = "running"
  /\ registry' = RemoveKey(registry, peerKey)
  /\ peerPc' = "idle"
  /\ UNCHANGED <<flag, peerKey>>
  /\ UNCHANGED peerFrame
  /\ UNCHANGED histVars

RegNext ==
  \/ Next
  \/ \E k \in Keys : PeerRegister(k)
  \/ PeerFinish

\* the registry is the same code on every platform: one is looked at
RegInit == Init /\ platform = "linux"

RegSpec == RegInit /\ [][RegNext]_vars

\* ------------------------------------------------------------------------
\* The pure functions, called directly
\* ------------------------------------------------------------------------
PureInit ==
  /\ IdleInit
  /\ timeoutArg = [i \in Slots |-> NoTimeout]
  /\ call \in BuildCalls \cup ValidateCalls
  /\ ret = NoResult

pureFrame == <<pc, key, workdir, registry, flag, lastCancel, policyFile,
               platform, sandboxCmd, wrapperTry, plainTry, sandboxed, child,
               status, exitStatus, desc, timer, cancelled, outcome, fd, rd, got,
               execRet, rcRet, firedWhileRunning, cancelWhileRunning,
               timeoutArg, wrote, peerPc, peerKey, call, server>>

\* build_sandbox_command(cmd, workspace_root, policy) on the platform of the build
ApplyBuildSandboxCommand ==
  /\ call.fn = "build_sandbox_command"
  /\ ~ret.done
  /\ ret' = [NoResult EXCEPT
               !.done = TRUE,
               !.cmd = BuildSandboxCommandIn(Command, call.root, call.policy,
                                             platform, call.bwrapOk)]
  /\ UNCHANGED pureFrame
  /\ UNCHANGED histVars

\* ensure_inside_workspace_exists(workspace_root, path)
ApplyEnsureInsideWorkspaceExists ==
  /\ call.fn = "ensure_inside_workspace_exists"
  /\ ~ret.done
  /\ ret' = [NoResult EXCEPT
               !.done = TRUE,
               !.val = EnsureInsideWorkspaceExists(call.root, call.path)]
  /\ UNCHANGED pureFrame
  /\ UNCHANGED histVars

PureNext ==
  \/ ApplyBuildSandboxCommand
  \/ ApplyEnsureInsideWorkspaceExists

PureSpec == PureInit /\ [][PureNext]_vars

\* ------------------------------------------------------------------------
\* Properties
\* ------------------------------------------------------------------------
\* execute has returned a value for invocation i
Returned(i) == execRet[i].tag # "none"

\* run_command has returned for every invocation that was started
AtRest == \A i \in Slots : pc[i] \in {"idle", "done"}

\* the result record carries exactly these three values
ResultIs(i, code, to, ca) ==
  /\ execRet[i].tag = "Ok"
  /\ execRet[i].exit_code = code
  /\ execRet[i].timed_out = to
  /\ execRet[i].cancelled = ca

\* the working directory really lies in the workspace: it exists and its
\* canonical path is the root or below it, component by component
InsideWorkspace(root, wd) ==
  LET rootC == Canonicalize(root)
      full == IF IsAbsolute(wd) THEN Components(wd)
              ELSE Components(root) \o Components(wd)
      canonical == Resolve(<<>>, full)
  IN rootC.ok /\ canonical.ok /\ PathStartsWith(canonical.path, rootC.path)

\* C1: when the poll loop sees the exit of the child first (outcome Exited),
\* the result has timed_out = false, cancelled = false and the exit code the
\* child really ended with, zero or not
C1_ExitedKeepsCode ==
  \A i \in Slots :
    (Returned(i) /\ outcome[i] = "Exited") =>
      /\ execRet[i].tag = "Ok"
      /\ ~execRet[i].timed_out
      /\ ~execRet[i].cancelled
      /\ (exitStatus[i].kind = "code" => execRet[i].exit_code = exitStatus[i].val)

\* a command ended with code 42 after the timer had fired and the flag was
\* set, and the loop saw the exit first
C1_Witness ==
  \E i \in Slots :
    /\ Returned(i) /\ outcome[i] = "Exited"
    /\ exitStatus[i] = [kind |-> "code", val |-> 42]
    /\ execRet[i].exit_code = 42
    /\ timer[i] = "sent"

\* C2 as stated: the child was running when the timer fired and the token is
\* never set, so the result is timed_out = true, cancelled = false, -1
C2_Original ==
  \A i \in Slots :
    (Returned(i) /\ firedWhileRunning[i] /\ ~flag[i]) => ResultIs(i, -1, TRUE, FALSE)

\* C2 amended: when the poll loop has received the timer signal (the exit
\* check of that iteration found the child running) and the token is never
\* set, the result is timed_out = true, cancelled = false, exit_code = -1
C2_TimerReceived ==
  \A i \in Slots :
    (Returned(i) /\ timer[i] = "taken" /\ ~flag[i]) => ResultIs(i, -1, TRUE, FALSE)

C2_Witness ==
  \E i \in Slots :
    /\ Returned(i) /\ timer[i] = "taken" /\ ~flag[i] /\ firedWhileRunning[i]
    /\ execRet[i].timed_out

\* C3 as stated: the flag was set while the child ran and the timer had not
\* fired, so the result is cancelled = true, timed_out = false, -1
C3_Original ==
  \A i \in Slots :
    (Returned(i) /\ cancelWhileRunning[i]) => ResultIs(i, -1, FALSE, TRUE)

\* C3 amended: when the loop reaches its cancel check with the flag set (the
\* exit check and the timer check of that iteration found nothing), execute
\* returns cancelled = true, timed_out = false, exit_code = -1, and needs no
\* firing of the timer for it
C3_CancelCheckLeadsToCancelled ==
  \A i \in Slots :
    (pc[i] = "poll_cancel" /\ key[i] # NoKey /\ flag[i])
      ~> (Returned(i) /\ ResultIs(i, -1, FALSE, TRUE))

\* a cancelled result was returned while the timer was still asleep
C3_Witness ==
  \E i \in Slots :
    /\ Returned(i) /\ cancelWhileRunning[i] /\ execRet[i].cancelled
    /\ timer[i] = "armed"

\* C4: no result has timed_out and cancelled both true
C4_NotBothFlags ==
  \A i \in Slots :
    /\ ~(execRet[i].timed_out /\ execRet[i].cancelled)
    /\ ~(rcRet[i].timed_out /\ rcRet[i].cancelled)

\* a timeout was reported although the flag had been set as well
C4_Witness ==
  \E i \in Slots :
    /\ Returned(i) /\ flag[i] /\ key[i] # NoKey
    /\ timer[i] = "taken" /\ execRet[i].timed_out

\* C5: cancel_command for a key with no entry returns false and leaves the
\* registry and every token's flag as they were
C5_UnknownKeyNoEffect ==
  [][\A k \in CancelKeys :
       (CancelCommand(k) /\ registry[k] = NoToken) =>
         (lastCancel' = "false" /\ registry' = registry /\ flag' = flag)]_vars

\* a cancel returned false while another key's token was registered and unset
C5_Witness ==
  /\ lastCancel = "false"
  /\ \E k \in Keys : registry[k] # NoToken /\ ~flag[registry[k]]

\* C6: once the fate of the child is decided, execute eventually returns,
\* whatever the descendants holding the pipes do
C6_DecidedLeadsToReturn ==
  \A i \in Slots : (outcome[i] # "Running") ~> Returned(i)

\* execute returned while a descendant still held the pipes open and both
\* bounded waits had expired
C6_Witness ==
  \E i \in Slots :
    /\ Returned(i) /\ execRet[i].tag = "Ok"
    /\ desc[i] # "none"
    /\ ~got[i]["out"] /\ ~got[i]["err"]

\* C7 as stated: for a working directory that is not inside the workspace
\* root, execute returns an error, and no child, timer or pipe exists
C7_OutsideNeverSpawns ==
  \A i \in Slots :
    (pc[i] # "idle" /\ ~InsideWorkspace(WorkspaceRoot, workdir[i])) =>
      /\ child[i] = "none"
      /\ timer[i] = "off"
      /\ fd[i] = "none"
      /\ (Returned(i) => execRet[i].tag = "Err")

\* C8: an error value comes only from the working directory check or from a
\* failed plain spawn, and never once a child exists
C8_ErrorsOnlyBeforeChild ==
  \A i \in Slots :
    /\ (execRet[i].tag = "Err" =>
          /\ child[i] = "none"
          /\ \/ /\ execRet[i].err \in {"NotFound", "OutsideWorkspace"}
                /\ wrapperTry[i] = "no" /\ plainTry[i] = "no"
             \/ /\ execRet[i].err = "spawn"
                /\ plainTry[i] = "fail")
    /\ ((Returned(i) /\ child[i] # "none") => execRet[i].tag = "Ok")

\* neither the wrapper nor the plain shell could be spawned
C8_Witness ==
  \E i \in Slots :
    /\ execRet[i].tag = "Err" /\ execRet[i].err = "spawn"
    /\ wrapperTry[i] = "fail" /\ plainTry[i] = "fail"

\* the spawn step is over, and the flag and the result agree with what ran
SandboxedMatchesSpawn(i) ==
  /\ (wrapperTry[i] # "no" \/ plainTry[i] # "no") =>
        /\ sandboxed[i] = (sandboxCmd[i].some /\ wrapperTry[i] = "ok")
        /\ (wrapperTry[i] # "ok" => plainTry[i] # "no")
  /\ (execRet[i].tag = "Ok" =>
        execRet[i].sandboxed = (sandboxCmd[i].some /\ wrapperTry[i] = "ok"))

\* C9: sandboxed is true exactly when a wrapper was built and its spawn
\* succeeded; no wrapper is built when the policy just loaded is disabled or
\* the platform has no backend; without a running wrapper the plain shell is
\* tried; the result carries the flag unchanged on every path
C9_SandboxedIffWrapperRan ==
  /\ [](\A i \in Slots : SandboxedMatchesSpawn(i))
  /\ [][\A i \in Slots :
          (BuildSandbox(i) /\ sandboxCmd'[i].some) =>
            (LoadPolicy(policyFile).enabled /\ platform # "other")]_vars

\* the wrapper failed to spawn, the plain shell ran, the command was
\* cancelled, and the result says sandboxed = false
C9_Witness ==
  \E i \in Slots :
    /\ execRet[i].tag = "Ok" /\ outcome[i] = "Cancelled"
    /\ wrapperTry[i] = "fail" /\ plainTry[i] = "ok"
    /\ ~execRet[i].sandboxed

\* C10 as stated: when every started invocation has returned, the registry
\* holds no entry
C10_RegistryEmptyAtRest ==
  AtRest => \A k \in CancelKeys : registry[k] = NoToken

\* the elements of a sequence
Range(q) == { q[n] : n \in 1..Len(q) }

\* a file-write* line with this verb
IsWriteRule(r, verb) == r.op = "file-write*" /\ r.verb = verb

\* a direct call of build_sandbox_command has returned a sandbox-exec command
ProfileBuilt == ret.done /\ ret.cmd.program = "sandbox-exec"

\* C11: in the profile generate_profile produces, every deny_write path has
\* its `deny file-write*` line, and each such line stands after every
\* `allow file-write*` line (workspace, temp directories, allow_write paths)
C11_DenyAfterAllow ==
  ProfileBuilt =>
    LET profile == ret.cmd.profile IN
      /\ \A p \in Range(call.policy.deny_write) :
           \E d \in 1..Len(profile) :
             profile[d] = SubpathRule("deny", "file-write*", ExpandTilde(p))
      /\ \A a \in 1..Len(profile), d \in 1..Len(profile) :
           (/\ IsWriteRule(profile[d], "deny")
            /\ profile[d].filtered
            /\ IsWriteRule(profile[a], "allow")) => a < d

\* a profile was generated for a policy that allows and denies the same path
C11_Witness ==
  /\ ProfileBuilt
  /\ \E p \in Range(call.policy.allow_write) \cap Range(call.policy.deny_write) :
       \E a \in 1..Len(ret.cmd.profile), d \in 1..Len(ret.cmd.profile) :
         /\ ret.cmd.profile[a] = SubpathRule("allow", "file-write*", ExpandTilde(p))
         /\ ret.cmd.profile[d] = SubpathRule("deny", "file-write*", ExpandTilde(p))
         /\ a < d

\* the largest element of a non-empty set of numbers
MaxOf(S) == CHOOSE x \in S : \A y \in S : y <= x

\* Seatbelt takes the last line that matches the operation and the path: the
\* profile is written for that rule (deny lines after the allow lines)
SeatbeltWritable(profile, path) ==
  LET hits == { n \in 1..Len(profile) :
                  /\ profile[n].op = "file-write*"
                  /\ profile[n].filtered =>
                       PathStartsWith(Components(path),
                                      Components(UnescapeSeatbelt(profile[n].subpath))) }
  IN hits # {} /\ profile[MaxOf(hits)].verb = "allow"

\* bwrap mounts in the order of its options: the last bind over a path decides
\* whether it is writable; a path under no bind does not exist in the sandbox
BwrapWritable(options, path) ==
  LET hits == { n \in 1..Len(options) :
                  /\ options[n].opt \in {"--bind", "--ro-bind"}
                  /\ PathStartsWith(Components(path), Components(options[n].path)) }
  IN hits # {} /\ options[MaxOf(hits)].opt = "--bind"

\* the command run under this sandbox invocation can write to the path
Writable(cmd, path) ==
  IF cmd.program = "sandbox-exec" THEN SeatbeltWritable(cmd.profile, path)
  ELSE BwrapWritable(cmd.options, path)

\* C12: in every sandbox invocation build_sandbox_command returns, on macOS
\* and on Linux, a path listed in both allow_write and deny_write is not
\* writable
C12_DenyWriteWins ==
  (ret.done /\ ret.cmd.some) =>
    \A p \in Range(call.policy.allow_write) \cap Range(call.policy.deny_write) :
      ~Writable(ret.cmd, ExpandTilde(p))

\* the duration the code promises for a requested timeout
ClampedTimeout(arg) ==
  IF ~arg.some THEN DefaultTimeoutMs
  ELSE IF arg.ms > MaxTimeoutMs THEN MaxTimeoutMs ELSE arg.ms

\* C13: for every requested timeout (absent, or any value) the timer is armed
\* with min(timeout_ms, 600000), 120000 when absent, never with more than
\* 600000; and the loop takes the TimedOut transition only on the signal of
\* the timer armed with that value, after it has fired
C13_TimeoutClamped ==
  /\ [](\A i \in Slots :
          timer[i] # "off" =>
            /\ armedMs[i] = ClampedTimeout(timeoutArg[i])
            /\ armedMs[i] <= MaxTimeoutMs)
  /\ [][\A i \in Slots :
          (outcome'[i] = "TimedOut" /\ outcome[i] # "TimedOut") =>
            /\ timer[i] = "sent"
            /\ timer'[i] = "taken"
            /\ armedMs[i] = ClampedTimeout(timeoutArg[i])]_vars

\* a command asked for more than the cap, ran under the cap and timed out
C13_Witness ==
  \E i \in Slots :
    /\ timeoutArg[i].some
    /\ timeoutArg[i].ms > MaxTimeoutMs
    /\ armedMs[i] = MaxTimeoutMs
    /\ Returned(i)
    /\ execRet[i].tag = "Ok"
    /\ execRet[i].timed_out

\* C14: the token a registration stores is uncancelled when it is created, also
\* when the token stored before under the same key was cancelled; a cancel
\* that finds the key returns true and sets the flag the execution loop reads
\* through its clone, and the flag of a token in use is never reset
C14_FreshTokenThenCancelled ==
  /\ [][\A t \in Tokens :
          (\E k \in Keys : registry'[k] = t /\ registry[k] # t) => ~flag'[t]]_vars
  /\ [][\A k \in CancelKeys :
          (CancelCommand(k) /\ registry[k] # NoToken) =>
            /\ lastCancel' = "true"
            /\ flag'[registry[k]]]_vars
  /\ [][\A i \in Slots : flag[i] => flag'[i]]_vars

\* the other invocation has registered under the key whose previous token,
\* still held by the first invocation, was cancelled: its own token is not
C14_Witness ==
  \E i \in Slots :
    /\ key[i] # NoKey
    /\ flag[i]
    /\ lastCancel = "true"
    /\ peerPc = "running"
    /\ peerKey = key[i]
    /\ registry[key[i]] = Peer
    /\ ~flag[Peer]

\* execute has returned a result record (not an error) for invocation i
ReturnedOk(i) == execRet[i].tag = "Ok"

\* the stream of the result that belongs to pipe p
Stream(r, p) == IF p = "out" THEN r.stdout ELSE r.stderr

C16_OkOnlyInside ==
  (ret.done /\ call.fn = "ensure_inside_workspace_exists") =>
    IF ret.val.ok
    THEN /\ InsideWorkspace(call.root, call.path)
         /\ ret.val.path \in ExistingDirs
         /\ PathStartsWith(ret.val.path, Canonicalize(call.root).path)
    ELSE ret.val.err \in {"NotFound", "OutsideWorkspace"}

\* the termination steps of a kill path, in the order of the code
KillSteps == <<"killpg", "kill", "wait">>

\* C17 as stated: on every termination path, natural exit included, the group
\* is killed before the result is returned and no process of the group, child
\* or descendant, runs at the return
C17_Original ==
  \A i \in Slots :
    ReturnedOk(i) =>
      /\ "killpg" \in Range(termLog[i])
      /\ child[i] = "reaped"
      /\ desc[i] # "ingroup"

\* C17: on the TimedOut and Cancelled paths the group kill is sent before the
\* result is returned, and on Unix no descendant still in the group runs at
\* the return; on every path the direct child has been reaped by then; on the
\* natural-exit path no group kill is sent
C17_KillPathsKillGroup ==
  \A i \in Slots :
    ReturnedOk(i) =>
      /\ child[i] = "reaped"
      /\ outcome[i] \in {"TimedOut", "Cancelled"} =>
           /\ SubSeq(termLog[i], 1, 3) = KillSteps
           /\ IsUnix => desc[i] # "ingroup"
      /\ outcome[i] = "Exited" => "killpg" \notin Range(termLog[i])

\* a timed-out command on Unix returned after the group kill, with no
\* descendant left and both pipes read to their end
C17_Witness ==
  \E i \in Slots :
    /\ ReturnedOk(i)
    /\ IsUnix
    /\ outcome[i] = "TimedOut"
    /\ termLog[i] = KillSteps \o <<"drain", "return">>
    /\ child[i] = "reaped"
    /\ desc[i] = "none"
    /\ \A p \in Pipes : got[i][p]

\* C18 as stated: in no interleaving is a command whose process finished in
\* the same poll iteration in which the timer fired or the flag was set
\* reported as timed out or cancelled
C18_Original ==
  \A i \in Slots :
    outcome[i] \in {"TimedOut", "Cancelled"} => exitedAtDetect[i] # "same_tick"

\* C18: in every poll iteration the exit check comes first: an exit that has
\* happened by the exit check is reported as Exited, with neither flag, also
\* when the timer has fired and the flag is set by then; TimedOut and
\* Cancelled are decided only at the two later checks of an iteration whose
\* exit check found the process running
C18_ExitCheckFirst ==
  /\ [][\A i \in Slots :
          (pc[i] = "poll_wait" /\ pc'[i] # "poll_wait" /\ child[i] = "zombie") =>
            /\ outcome'[i] = "Exited"
            /\ pc'[i] = "drain"]_vars
  /\ [][\A i \in Slots :
          (outcome[i] = "Running" /\ outcome'[i] \in {"TimedOut", "Cancelled"}) =>
            pc[i] \in {"poll_timer", "poll_cancel"}]_vars
  /\ [][\A i \in Slots :
          (pc'[i] = "poll_timer" /\ pc[i] # "poll_timer") =>
            (pc[i] = "poll_wait" /\ child[i] = "running")]_vars
  /\ [](\A i \in Slots :
          (ReturnedOk(i) /\ outcome[i] = "Exited") =>
            ~execRet[i].timed_out /\ ~execRet[i].cancelled)

\* the exit was seen first although the timer had fired and the flag was set
C18_Witness ==
  \E i \in Slots :
    /\ ReturnedOk(i)
    /\ outcome[i] = "Exited"
    /\ timer[i] = "sent"
    /\ key[i] # NoKey
    /\ flag[i]
    /\ ~execRet[i].timed_out
    /\ ~execRet[i].cancelled

\* C19: an iteration that reaches its timer check with the signal pending
\* decides for TimedOut, whether or not the cancel flag is set; Cancelled is
\* decided only at the cancel check of an iteration that received no timer
\* signal, so a signal the loop received never yields cancelled = true
C19_TimeoutBeforeCancel ==
  /\ [][\A i \in Slots :
          (pc[i] = "poll_timer" /\ pc'[i] # "poll_timer" /\ timer[i] = "sent") =>
            /\ outcome'[i] = "TimedOut"
            /\ ~cancelled'[i]]_vars
  /\ [][\A i \in Slots :
          (outcome[i] = "Running" /\ outcome'[i] = "Cancelled") =>
            /\ pc[i] = "poll_cancel"
            /\ timer[i] # "taken"
            /\ timer'[i] # "taken"]_vars
  /\ [](\A i \in Slots :
          (ReturnedOk(i) /\ timer[i] = "taken") =>
            execRet[i].timed_out /\ ~execRet[i].cancelled)

\* the timer signal was taken while the child ran and the flag, set before
\* the timer fired, was up: the loop has decided for TimedOut
C19_Witness ==
  \E i \in Slots :
    /\ pc[i] = "kill_group"
    /\ outcome[i] = "TimedOut"
    /\ exitedAtDetect[i] = "running"
    /\ cancelWhileRunning[i]
    /\ key[i] # NoKey
    /\ flag[i]
    /\ ~cancelled[i]

\* the draining of the pipes of invocation i has started
Draining(i) == \E p \in Pipes : rd[i][p] # "none"

\* C20: on the TimedOut and Cancelled paths the group kill, the kill of the
\* direct child and the reaping wait have all been made, in this order, when
\* the draining starts and when the result is returned; on no path does the
\* draining start while the direct child is unreaped
C20_ReapBeforeDrain ==
  \A i \in Slots :
    /\ Draining(i) => child[i] = "reaped"
    /\ (outcome[i] \in {"TimedOut", "Cancelled"} /\ (Draining(i) \/ Returned(i))) =>
         /\ SubSeq(termLog[i], 1, 4) = KillSteps \o <<"drain">>
         /\ child[i] = "reaped"
    /\ (outcome[i] \in {"TimedOut", "Cancelled"} /\ Returned(i)) =>
         termLog[i] = KillSteps \o <<"drain", "return">>

\* a cancelled command: its readers run, the three kill steps are behind it
C20_Witness ==
  \E i \in Slots :
    /\ outcome[i] = "Cancelled"
    /\ pc[i] = "recv_out"
    /\ Draining(i)
    /\ termLog[i] = KillSteps \o <<"drain">>
    /\ child[i] = "reaped"

\* ------------------------------------------------------------------------
\* C21: the registry entry of a keyed invocation is there before its process
\* is spawned and is taken away only by run_command after execute has
\* returned (the child reaped or never spawned, the pipes drained); with no
\* other user of the key, cancel for that key finds the entry at every
\* moment from registration until the result is handed on.
\* ------------------------------------------------------------------------
C21_RegisteredUntilReturned ==
  /\ [](\A i \in Slots :
          (key[i] # NoKey /\ pc[i] \notin {"idle", "done"})
            => (registry[key[i]] = i /\ CancelFound(registry, key[i])))
  /\ [][\A i \in Slots :
          /\ (child[i] = "none" /\ child'[i] # "none" /\ key[i] # NoKey)
               => registry[key[i]] = i
          /\ (key[i] # NoKey /\ registry[key[i]] = i /\ registry'[key[i]] # i)
               => /\ pc[i] = "returned"
                  /\ Returned(i)
                  /\ child[i] \in {"none", "reaped"}
                  /\ rcRet'[i] = execRet[i]
          /\ (key[i] # NoKey /\ pc[i] \notin {"idle", "done"}
              /\ flag'[i] /\ ~flag[i])
               => lastCancel' = "true"]_vars

\* a cancel was answered true for an invocation whose execute has already
\* returned after a kill, and the entry is still there
C21_Witness ==
  \E i \in Slots :
    /\ key[i] # NoKey
    /\ pc[i] = "returned"
    /\ child[i] = "reaped"
    /\ registry[key[i]] = i
    /\ lastCancel = "true"

\* ------------------------------------------------------------------------
\* Reader threads under a fair scheduler: a reader whose pipe is at
\* end-of-file, and a reader whose descriptor has been closed, gets to run.
\* Nothing makes a surviving descendant end.
\* ------------------------------------------------------------------------
Reader(i) == \E p \in Pipes : ReaderEof(i, p) \/ ReaderClosed(i, p)

ReaderFairSpec ==
  /\ FairSpec
  /\ \A i \in Slots : WF_vars(Reader(i))

\* ------------------------------------------------------------------------
\* C22: once drain_pipes_with_timeout has returned, every reader thread it
\* started eventually ends, whatever holds the pipe open, and a buffer sent
\* after the bounded wait does not change the result already returned.
\* ------------------------------------------------------------------------
C22_ReadersEnd ==
  /\ \A i \in Slots :
       (Returned(i) /\ \E p \in Pipes : rd[i][p] = "reading")
         ~> (\A p \in Pipes : rd[i][p] \in {"sent", "ended"})
  /\ [][\A i \in Slots : Returned(i) => execRet'[i] = execRet[i]]_vars

\* ------------------------------------------------------------------------
\* The termination step performed a second time: after kill_process_group,
\* child.kill and child.wait have been made once, they are made again
\* ------------------------------------------------------------------------
TerminateAgain(i) ==
  /\ pc[i] = "drain"
  /\ termLog[i] = KillSteps
  /\ pc' = [pc EXCEPT ![i] = "kill_group"]
  /\ UNCHANGED <<sandboxCmd, wrapperTry, plainTry, sandboxed, child, status, exitStatus, desc,
                 timer, cancelled, outcome, fd, rd, got, execRet, firedWhileRunning>>
  /\ UNCHANGED ctlVars
  /\ UNCHANGED histVars

TermNext == Next \/ \E i \in Slots : TerminateAgain(i)

TermSpec == Init /\ [][TermNext]_vars

\* ------------------------------------------------------------------------
\* C23: the termination step (kill_process_group, child.kill, child.wait)
\* goes through in every state of the group and the child: the wait never
\* finds a child that still runs, the child ends reaped and no descendant
\* is left in the group on Unix; made again it changes nothing; the result
\* returned after it depends on the kind of stop alone.
\* ------------------------------------------------------------------------
C23_TerminationIdempotent ==
  /\ [](\A i \in Slots :
          /\ pc[i] = "wait_child" => child[i] \in {"zombie", "reaped"}
          /\ (pc[i] = "drain" /\ termLog[i] # <<>> /\ termLog[i][1] = "killpg")
               => /\ child[i] = "reaped"
                  /\ status[i] = NoStatus
                  /\ IsUnix => desc[i] # "ingroup"
          /\ (Returned(i) /\ termLog[i] # <<>> /\ termLog[i][1] = "killpg")
               => /\ execRet[i].tag = "Ok"
                  /\ execRet[i].exit_code = -1
                  /\ execRet[i].timed_out = (outcome[i] = "TimedOut")
                  /\ execRet[i].cancelled = (outcome[i] = "Cancelled"))
  /\ [][\A i \in Slots :
          (Len(termLog[i]) >= Len(KillSteps)
           /\ pc[i] \in {"kill_group", "kill_child", "wait_child"}
           /\ pc'[i] # pc[i])
            => <<child[i], status[i], desc[i]>>' = <<child[i], status[i], desc[i]>>]_vars

\* the step has been made twice, the second time on a reaped child, with a
\* descendant that had left the group still alive
C23_Witness ==
  \E i \in Slots :
    /\ termLog[i] = KillSteps \o KillSteps
    /\ pc[i] = "drain"
    /\ child[i] = "reaped"
    /\ desc[i] = "detached"

C25_ClosedOnceByDrainer ==
  /\ [](\A i \in Slots :
          /\ (IsUnix /\ Returned(i) /\ fd[i] # "none") => fd[i] = "closed"
          /\ fd[i] = "closed" => (IsUnix /\ Returned(i)))
  /\ [][\A i \in Slots :
          fd'[i] # fd[i]
            => \/ fd[i] = "none" /\ fd'[i] = "open"
               \/ /\ fd[i] = "open" /\ fd'[i] = "closed"
                  /\ pc[i] = "close_fds" /\ pc'[i] = "returned"
                  /\ rd'[i] = rd[i]]_vars

\* execute has returned on Unix with one reader finished and the other still
\* blocked: the descriptors are closed
C25_Witness ==
  \E i \in Slots :
    /\ IsUnix
    /\ Returned(i)
    /\ fd[i] = "closed"
    /\ rd[i]["out"] = "sent"
    /\ rd[i]["err"] = "reading"

\* ------------------------------------------------------------------------
\* C26: when two invocations that gave the same cancel key overlap, each of
\* them stays cancellable while it is in flight: as long as the command of
\* one runs, the registry holds its own token under the key, so that a
\* cancel for the key answers true and sets the flag this command polls;
\* the same for the other invocation.
\* ------------------------------------------------------------------------
C26_BothCancellable ==
  /\ \A i \in Slots :
       (key[i] # NoKey /\ child[i] = "running") => registry[key[i]] = i
  /\ (peerPc = "running" /\ peerKey # NoKey) => registry[peerKey] = Peer

C28_NoReadAfterClose ==
  [][\A i \in Slots, p \in Pipes :
       ~(fd[i] = "closed" /\ rd[i][p] = "reading" /\ rd'[i][p] # "reading")]_vars

\* ------------------------------------------------------------------------
\* C29: the group kill is sent only for a child this invocation has not yet
\* reaped: at the step that calls kill_process_group the child still runs or
\* has exited unreaped, and in the order of the termination steps no killpg
\* follows a try_wait or wait that collected the status.
\* ------------------------------------------------------------------------
C29_KillOnlyUnreaped ==
  /\ [][\A i \in Slots :
          (pc[i] = "kill_group" /\ pc'[i] # pc[i]) => child[i] \in {"running", "zombie"}]_vars
  /\ [](\A i \in Slots :
          \A m \in DOMAIN termLog[i], n \in DOMAIN termLog[i] :
            (termLog[i][m] \in {"try_wait", "wait"} /\ termLog[i][n] = "killpg") => n < m)

\* the group kill has just been sent and has ended the child, which is not
\* reaped yet
C29_Witness ==
  \E i \in Slots :
    /\ IsUnix
    /\ pc[i] = "kill_child"
    /\ termLog[i] = <<"killpg">>
    /\ child[i] = "zombie"
    /\ status[i] = KillStatus

\* ------------------------------------------------------------------------
\* The officellm server session manager (officellm/server/mod.rs)
\* ------------------------------------------------------------------------
sessFrame == <<pc, key, workdir, registry, flag, lastCancel, policyFile,
               platform, sandboxCmd, wrapperTry, plainTry, sandboxed, child,
               status, exitStatus, desc, timer, cancelled, outcome, fd, rd, got,
               execRet, rcRet, firedWhileRunning, cancelWhileRunning,
               timeoutArg, armedMs, wrote, peerPc, peerKey, call, ret,
               exitedAtDetect, tickEvents, termLog>>

\* open(path) with no session present: the process is spawned, the open
\* request answered, the session stored with its handles
Open ==
  /\ server.session = 0
  /\ server.opened < MaxSessions
  /\ server' = [server EXCEPT !.session = server.opened + 1,
                              !.io = server.opened + 1,
                              !.opened = server.opened + 1]
  /\ UNCHANGED sessFrame

\* close(): the session is taken out of SESSION, its process killed and reaped
Close ==
  /\ server.session # 0
  /\ server' = [server EXCEPT !.session = 0, !.io = 0,
                              !.killed = @ \cup {server.session}]
  /\ UNCHANGED sessFrame

\* take_io at the start of call / save: the handles leave the session
TakeIo(c) ==
  /\ server.req[c].pc = "idle"
  /\ server.session # 0
  /\ server.io # 0
  /\ server' = [server EXCEPT !.io = 0,
                              !.req[c] = [pc |-> "request", gen |-> server.io]]
  /\ UNCHANGED sessFrame

\* send_request returns: Ok with the handles when the process has answered,
\* Err on a write error, a timeout, end-of-file or an unparsable answer
SendRequest(c) ==
  /\ server.req[c].pc = "request"
  /\ \/ /\ server.req[c].gen \notin server.killed
        /\ server' = [server EXCEPT !.req[c].pc = "ok"]
     \/ server' = [server EXCEPT !.req[c].pc = "err"]
  /\ UNCHANGED sessFrame

\* return_io(io): the handles are put into whatever session SESSION holds
ReturnIo(c) ==
  /\ server.req[c].pc = "ok"
  /\ server' = [server EXCEPT
                  !.io = IF server.session # 0 THEN server.req[c].gen ELSE @,
                  !.req[c] = [pc |-> "idle", gen |-> 0]]
  /\ UNCHANGED sessFrame

\* kill_on_io_error(): whatever session SESSION holds is taken out and killed
KillOnIoError(c) ==
  /\ server.req[c].pc = "err"
  /\ server' = [server EXCEPT
                  !.session = 0,
                  !.io = 0,
                  !.killed = IF server.session # 0 THEN @ \cup {server.session} ELSE @,
                  !.req[c] = [pc |-> "idle", gen |-> 0]]
  /\ UNCHANGED sessFrame

SessNext ==
  \/ Open
  \/ Close
  \/ \E c \in Callers : TakeIo(c)
  \/ \E c \in Callers : SendRequest(c)
  \/ \E c \in Callers : ReturnIo(c)
  \/ \E c \in Callers : KillOnIoError(c)

SessSpec == Init /\ [][SessNext]_vars

\* ------------------------------------------------------------------------
\* C30: a call or save request that was in flight when its session was
\* closed never affects a session opened afterwards: the handles a session
\* holds are its own, and a request that ends in kill_on_io_error removes
\* and kills no session but the one whose handles it took.
\* ------------------------------------------------------------------------
C30_StaleRequestHarmless ==
  /\ [](server.io # 0 => server.io = server.session)
  /\ [][\A c \in Callers :
          (server.req[c].pc = "err" /\ server'.req[c].pc = "idle"
           /\ server'.session # server.session)
            => server.session = server.req[c].gen]_vars
====
